---- MODULE Spec2Model ----
(***************************************************************************)
(* Model of the guestfsd ext2 and mkfs wrappers (daemon/ext2.c,            *)
(* daemon/mkfs.c).  C strings are sequences of one-character strings; a    *)
(* buffer is read through CharAt, which yields NUL at and after its end.   *)
(* Memory allocation (add_string, strdup) is assumed to succeed.           *)
(***************************************************************************)
EXTENDS Integers, Sequences, FiniteSets, TLC

VARIABLES optargs_bitmask, call, reply, proc

vars == <<optargs_bitmask, call, reply, proc>>

(***************************************************************************)
(* Bounds of the model.                                                    *)
(***************************************************************************)
MaxTuneChunks == 4
MaxUuidChunks == 4
MaxExp == 17

(***************************************************************************)
(* Characters and C string primitives.                                     *)
(***************************************************************************)
NUL == "NUL"
NULLPTR == "NULL"

\* c-ctype.h c_isspace: ' ', \t, \n, \v, \f, \r ("VT" stands for \v)
c_isspace(c) == c \in {" ", "\t", "\n", "VT", "\f", "\r"}

c_isxdigit(c) ==
  c \in {"0", "1", "2", "3", "4", "5", "6", "7", "8", "9",
         "a", "b", "c", "d", "e", "f", "A", "B", "C", "D", "E", "F"}

CharAt(buf, i) == IF i >= 1 /\ i <= Len(buf) THEN buf[i] ELSE NUL

\* strchrnul (buf + p, c): index of the first c at or after p, else of the NUL
RECURSIVE strchrnul(_, _, _)
strchrnul(buf, p, c) ==
  IF CharAt(buf, p) = c \/ CharAt(buf, p) = NUL THEN p
  ELSE strchrnul(buf, p + 1, c)

\* strchr (buf + p, c): index of the first c at or after p, 0 for NULL
strchr(buf, p, c) ==
  LET q == strchrnul(buf, p, c) IN IF CharAt(buf, q) = c THEN q ELSE 0

\* the C string that starts at index p of buf
CStr(buf, p) == SubSeq(buf, p, strchrnul(buf, p, NUL) - 1)

\* strncmp (buf + p, s, Len(s)) == 0
strncmp0(buf, p, s) == \A j \in 1..Len(s) : CharAt(buf, p + j - 1) = s[j]

\* strstr (buf, s): index of the first occurrence of s, 0 for NULL
RECURSIVE strstrFrom(_, _, _)
strstrFrom(buf, p, s) ==
  IF CharAt(buf, p) = NUL THEN 0
  ELSE IF strncmp0(buf, p, s) THEN p
  ELSE strstrFrom(buf, p + 1, s)

strstr(buf, s) == strstrFrom(buf, 1, s)

RECURSIVE Flatten(_)
Flatten(ss) == IF ss = <<>> THEN <<>> ELSE Head(ss) \o Flatten(Tail(ss))

ChunkSeqs(chunks, n) == UNION {[1..k -> chunks] : k \in 0..n}

(***************************************************************************)
(* do_tune2fs_l                                                            *)
(***************************************************************************)
Banner == <<"t", "u", "n", "e", "2", "f", "s", " ">>
StrNone == <<"<", "n", "o", "n", "e", ">">>
StrNotAvailable ==
  <<"<", "n", "o", "t", " ", "a", "v", "a", "i", "l", "a", "b", "l", "e", ">">>
StrParenNone == <<"(", "n", "o", "n", "e", ")">>

ErrTune2fs == "tune2fs: %s"
ErrTruncated == "tune2fs: truncated output"

\* do { colon++; } while (*colon && c_isspace (*colon));
RECURSIVE SkipSpace(_, _)
SkipSpace(buf, q) ==
  IF CharAt(buf, q) # NUL /\ c_isspace(CharAt(buf, q))
  THEN SkipSpace(buf, q + 1) ELSE q

SkipColon(buf, colon) == SkipSpace(buf, colon + 1)

\* the strcmp chain that maps the "none" spellings to ""
NoneValue(v) ==
  IF v = StrNone \/ v = StrNotAvailable \/ v = StrParenNone THEN <<>> ELSE v

\* the while (*p) loop; buf is the output buffer with the NULs written so far
RECURSIVE TuneLoop(_, _, _)
TuneLoop(buf, p, ret) ==
  IF CharAt(buf, p) = NUL THEN ret
  ELSE
    LET pend0 == strchrnul(buf, p, "\n")
        isnl == CharAt(buf, pend0) = "\n"
        buf1 == IF isnl THEN [buf EXCEPT ![pend0] = NUL] ELSE buf
        pend == IF isnl THEN pend0 + 1 ELSE pend0
    IN
      IF CharAt(buf1, p) = NUL THEN TuneLoop(buf1, p, ret)  \* continue
      ELSE
        LET colon == strchr(buf1, p, ":") IN
          IF colon # 0 THEN
            LET buf2 == [buf1 EXCEPT ![colon] = NUL]
                val == SkipColon(buf2, colon)
            IN TuneLoop(buf2, pend,
                        ret \o <<CStr(buf2, p), NoneValue(CStr(buf2, val))>>)
          ELSE
            TuneLoop(buf1, pend, ret \o <<CStr(buf1, p), <<>>>>)

\* start of parsing after the banner: 0 when the banner has no newline
DiscardBanner_m(out) ==
  IF strncmp0(out, 1, Banner) THEN strchr(out, 1, "\n") ELSE 1
DiscardBanner(out) ==
  IF strncmp0(out, 1, Banner)
  THEN LET nl == strchr(out, 1, "\n") IN IF nl # 0 THEN nl + 1 ELSE 0
  ELSE 1

\* r is the result of command (), out its captured stdout
do_tune2fs_l(r, out) ==
  IF r = -1 THEN [status |-> "error", msg |-> ErrTune2fs, ret |-> <<>>]
  ELSE
    LET p == DiscardBanner(out) IN
      IF p = 0 THEN [status |-> "error", msg |-> ErrTruncated, ret |-> <<>>]
      ELSE [status |-> "ok", msg |-> "",
            ret |-> TuneLoop(out, p, <<>>) \o <<NULLPTR>>]

(***************************************************************************)
(* do_get_e2uuid                                                           *)
(***************************************************************************)
Marker ==
  <<"\n", "F", "i", "l", "e", "s", "y", "s", "t", "e", "m", " ",
    "U", "U", "I", "D", ":">>

ErrTune2fsL == "tune2fs -l: %s"
ErrNoUuid == "no Filesystem UUID in the output of tune2fs -l"
ErrMalformed == "malformed Filesystem UUID in the output of tune2fs -l"

\* p += 17
MarkerSkip == 17

\* while (*p && c_isspace (*p)) p++;
UuidStart_m(out, p) == p
UuidStart(out, p) == SkipSpace(out, p)

\* while (*q && (c_isxdigit (*q) || *q == '-')) q++;
RECURSIVE UuidEnd(_, _)
UuidEnd(out, q) ==
  IF CharAt(out, q) # NUL /\ (c_isxdigit(CharAt(out, q)) \/ CharAt(out, q) = "-")
  THEN UuidEnd(out, q + 1) ELSE q

do_get_e2uuid(r, out) ==
  IF r = -1 THEN [status |-> "error", msg |-> ErrTune2fsL, str |-> <<>>]
  ELSE
    LET m == strstr(out, Marker) IN
      IF m = 0 THEN [status |-> "error", msg |-> ErrNoUuid, str |-> <<>>]
      ELSE
        LET p == UuidStart(out, m + MarkerSkip) IN
          IF CharAt(out, p) = NUL
          THEN [status |-> "error", msg |-> ErrMalformed, str |-> <<>>]
          ELSE
            LET q == UuidEnd(out, p) IN
              IF CharAt(out, q) = NUL
              THEN [status |-> "error", msg |-> ErrMalformed, str |-> <<>>]
              ELSE [status |-> "ok", msg |-> "",
                    str |-> CStr([out EXCEPT ![q] = NUL], p)]

(***************************************************************************)
(* do_mkfs_opts, do_mkfs, do_mkfs_b                                        *)
(***************************************************************************)
MAX_ARGS_m == 2 * 4
MAX_ARGS == 16

\* optargs_bitmask is modelled as the set of the bits that are set
GUESTFS_MKFS_OPTS_BLOCKSIZE_BITMASK == {"blocksize"}

ErrBlocksize == "block size must be > 0 and a power of 2"
ErrCluster == "unsupported cluster size for %s filesystem"
ErrGetss == "(error reported by do_blockdev_getss)"
ErrCommand == "%s: %s: %s"

\* daemon.h is_power_of_2
RECURSIVE is_power_of_2(_)
is_power_of_2(v) ==
  v = 1 \/ (v > 1 /\ v % 2 = 0 /\ is_power_of_2(v \div 2))

\* argv[0..i-1] after the fstype-conditional flags
ArgvHead_m(fstype) ==
  <<"mkfs", "-t", fstype>>
    \o (IF fstype = "ntfs" THEN <<"-Q">> ELSE <<>>)
    \o (IF fstype = "reiserfs" THEN <<"-f">> ELSE <<>>)
    \o (IF fstype = "gfs" \/ fstype = "gfs2"
        THEN <<"-p", "lock_nolock", "-j", "1", "-O">> ELSE <<>>)
ArgvHead(fstype) ==
  <<"mkfs", "-t", fstype>>
    \o (IF fstype = "ntfs" THEN <<"-Q">> ELSE <<>>)
    \o (IF fstype = "reiserfs" THEN <<"-f">> ELSE <<>>)
    \o (IF fstype = "jfs" THEN <<"-f">> ELSE <<>>)
    \o (IF fstype = "gfs" \/ fstype = "gfs2"
        THEN <<"-p", "lock_nolock", "-j", "1", "-O">> ELSE <<>>)

\* if (blocksize <= 0 || !is_power_of_2 (blocksize))
BlocksizeRejected_m(blocksize) == blocksize <= 0
BlocksizeRejected(blocksize) == blocksize <= 0 \/ ~is_power_of_2(blocksize)

\* int sectors_per_cluster = blocksize / sectorsize;
SectorsPerCluster_m(blocksize, sectorsize) == sectorsize \div blocksize
SectorsPerCluster(blocksize, sectorsize) == blocksize \div sectorsize

\* if (sectors_per_cluster < 1 || sectors_per_cluster > 128)
ClusterRejected(spc) == spc < 1 \/ spc > 128

MkfsFail(argv, msg, info, getss) ==
  [ret |-> -1, status |-> "error", msg |-> msg, info |-> info,
   argv |-> argv, i |-> Len(argv), ncommandv |-> 0, getss |-> getss]

\* argv[i++] = device; argv[i++] = NULL; the overflow test; commandv
MkfsRun(argv0, device, fstype, cmd, getss) ==
  LET argv == argv0 \o <<device, NULLPTR>> IN
    IF Len(argv) > MAX_ARGS
    THEN [ret |-> -1, status |-> "abort", msg |-> "", info |-> <<>>,
          argv |-> argv, i |-> Len(argv), ncommandv |-> 0, getss |-> getss]
    ELSE IF cmd = -1
    THEN [ret |-> -1, status |-> "error", msg |-> ErrCommand,
          info |-> <<fstype, device>>,
          argv |-> argv, i |-> Len(argv), ncommandv |-> 1, getss |-> getss]
    ELSE [ret |-> 0, status |-> "ok", msg |-> "", info |-> <<>>,
          argv |-> argv, i |-> Len(argv), ncommandv |-> 1, getss |-> getss]

\* bitmask is the value of optargs_bitmask read at line 77, ss the result of
\* do_blockdev_getss (device), cmd the result of commandv
do_mkfs_opts(fstype, device, blocksize, bitmask, ss, cmd) ==
  LET argv == ArgvHead(fstype) IN
    IF bitmask \cap GUESTFS_MKFS_OPTS_BLOCKSIZE_BITMASK # {} THEN
      IF BlocksizeRejected(blocksize)
      THEN MkfsFail(argv, ErrBlocksize, <<>>, FALSE)
      ELSE IF fstype = "vfat" \/ fstype = "msdos" THEN
        IF ss = -1 THEN MkfsFail(argv, ErrGetss, <<>>, TRUE)
        ELSE
          LET spc == SectorsPerCluster(blocksize, ss) IN
            IF ClusterRejected(spc)
            THEN MkfsFail(argv, ErrCluster, <<fstype, blocksize, ss, spc>>, TRUE)
            ELSE MkfsRun(argv \o <<"-s", ToString(spc)>>, device, fstype,
                         cmd, TRUE)
      ELSE IF fstype = "ntfs"
      THEN MkfsRun(argv \o <<"-c", ToString(blocksize)>>, device, fstype,
                   cmd, FALSE)
      ELSE MkfsRun(argv \o <<"-b", ToString(blocksize)>>, device, fstype,
                   cmd, FALSE)
    ELSE MkfsRun(argv, device, fstype, cmd, FALSE)

(***************************************************************************)
(* Inputs.                                                                 *)
(***************************************************************************)
TuneChunks ==
  {Banner, <<"k">>, <<":">>, <<" ">>, <<"\n">>,
   StrNone, StrNotAvailable, StrParenNone}

UuidChunks == {Marker, <<" ">>, <<"\n">>, <<"a">>, <<"-">>, <<"z">>}

FsTypes ==
  {"ext2", "ext3", "ntfs", "vfat", "msdos", "reiserfs", "jfs", "gfs", "gfs2"}

Devices == {"/dev/sda1", "/dev/sdb1"}

BlockSizes == {2 ^ e : e \in 0..MaxExp} \cup {-4096, -1, 0, 3, 3000, 12288}

\* results of do_blockdev_getss: -1 for failure, else the sector size
SectorSizes == {-1, 512, 1024, 4096, 16384}

CommandResults == {0, -1}

Threads == {1, 2}

NoCall == [op |-> "none"]

ThreadIdle ==
  [pc |-> "idle", op |-> "none", fstype |-> "", device |-> "", blocksize |-> 0,
   argv |-> <<>>, bitmask |-> {}, ss |-> 0, cmd |-> 0, res |-> NoCall]

(***************************************************************************)
(* The daemon serving one request at a time.                               *)
(***************************************************************************)
Init ==
  /\ optargs_bitmask = {}
  /\ call = NoCall
  /\ reply = NoCall
  /\ proc = [t \in Threads |-> ThreadIdle]

Tune2fsL ==
  /\ call.op = "none"
  /\ \E r \in CommandResults, cs \in ChunkSeqs(TuneChunks, MaxTuneChunks) :
       LET out == Flatten(cs) IN
         /\ call' = [op |-> "tune2fs_l", r |-> r, out |-> out]
         /\ reply' = do_tune2fs_l(r, out)
  /\ UNCHANGED <<optargs_bitmask, proc>>

GetE2uuid ==
  /\ call.op = "none"
  /\ \E r \in CommandResults, cs \in ChunkSeqs(UuidChunks, MaxUuidChunks) :
       LET out == Flatten(cs) IN
         /\ call' = [op |-> "get_e2uuid", r |-> r, out |-> out]
         /\ reply' = do_get_e2uuid(r, out)
  /\ UNCHANGED <<optargs_bitmask, proc>>

Mkfs ==
  /\ call.op = "none"
  /\ \E fstype \in FsTypes, device \in Devices, cmd \in CommandResults :
       /\ optargs_bitmask' = {}
       /\ call' = [op |-> "mkfs", fstype |-> fstype, device |-> device,
                   blocksize |-> 0, ss |-> 0, cmd |-> cmd]
       /\ reply' = do_mkfs_opts(fstype, device, 0, optargs_bitmask', 0, cmd)
  /\ UNCHANGED proc

MkfsB ==
  /\ call.op = "none"
  /\ \E fstype \in FsTypes, device \in Devices, blocksize \in BlockSizes,
        ss \in SectorSizes, cmd \in CommandResults :
       /\ optargs_bitmask' = GUESTFS_MKFS_OPTS_BLOCKSIZE_BITMASK
       /\ call' = [op |-> "mkfs_b", fstype |-> fstype, device |-> device,
                   blocksize |-> blocksize, ss |-> ss, cmd |-> cmd]
       /\ reply' = do_mkfs_opts(fstype, device, blocksize, optargs_bitmask',
                                ss, cmd)
  /\ UNCHANGED proc

\* the reply is sent and the daemon waits for the next request
Return ==
  /\ call.op # "none"
  /\ call' = NoCall
  /\ reply' = NoCall
  /\ UNCHANGED <<optargs_bitmask, proc>>

Next == Tune2fsL \/ GetE2uuid \/ Mkfs \/ MkfsB \/ Return

Spec == Init /\ [][Next]_vars

(***************************************************************************)
(* Two threads calling do_mkfs / do_mkfs_b, interleaved at the accesses to *)
(* the global optargs_bitmask.  Each thread works on its own device.       *)
(***************************************************************************)
ConcFsTypes == {"ext2", "ntfs", "vfat", "gfs2"}
ConcBlockSizes == {3000, 4096, 8192}
ConcSectorSizes == {-1, 512}
ThreadDevice(t) == IF t = 1 THEN "/dev/sda1" ELSE "/dev/sdb1"

OwnMask(op) ==
  IF op = "mkfs_b" THEN GUESTFS_MKFS_OPTS_BLOCKSIZE_BITMASK ELSE {}

CallMkfs(t) ==
  /\ proc[t].pc = "idle"
  /\ \E fstype \in ConcFsTypes :
       proc' = [proc EXCEPT ![t] =
                  [@ EXCEPT !.pc = "entry", !.op = "mkfs", !.fstype = fstype,
                            !.device = ThreadDevice(t), !.blocksize = 0]]
  /\ UNCHANGED <<optargs_bitmask, call, reply>>

CallMkfsB(t) ==
  /\ proc[t].pc = "idle"
  /\ \E fstype \in ConcFsTypes, blocksize \in ConcBlockSizes :
       proc' = [proc EXCEPT ![t] =
                  [@ EXCEPT !.pc = "entry", !.op = "mkfs_b", !.fstype = fstype,
                            !.device = ThreadDevice(t),
                            !.blocksize = blocksize]]
  /\ UNCHANGED <<optargs_bitmask, call, reply>>

\* do_mkfs: optargs_bitmask = 0;
EnterMkfs(t) ==
  /\ proc[t].pc = "entry" /\ proc[t].op = "mkfs"
  /\ optargs_bitmask' = {}
  /\ proc' = [proc EXCEPT ![t].pc = "opts"]
  /\ UNCHANGED <<call, reply>>

\* do_mkfs_b: optargs_bitmask = GUESTFS_MKFS_OPTS_BLOCKSIZE_BITMASK;
EnterMkfsB(t) ==
  /\ proc[t].pc = "entry" /\ proc[t].op = "mkfs_b"
  /\ optargs_bitmask' = GUESTFS_MKFS_OPTS_BLOCKSIZE_BITMASK
  /\ proc' = [proc EXCEPT ![t].pc = "opts"]
  /\ UNCHANGED <<call, reply>>

\* do_mkfs_opts up to the blocksize test: local writes to argv only
BuildArgv(t) ==
  /\ proc[t].pc = "opts"
  /\ proc' = [proc EXCEPT ![t] =
                [@ EXCEPT !.pc = "test", !.argv = ArgvHead(proc[t].fstype)]]
  /\ UNCHANGED <<optargs_bitmask, call, reply>>

\* do_mkfs_opts from the read of optargs_bitmask to its return
ProcessBlocksize(t) ==
  /\ proc[t].pc = "test"
  /\ \E ss \in ConcSectorSizes, cmd \in CommandResults :
       proc' = [proc EXCEPT ![t] =
                  [@ EXCEPT !.pc = "done", !.bitmask = optargs_bitmask,
                            !.ss = ss, !.cmd = cmd,
                            !.res = do_mkfs_opts(proc[t].fstype,
                                                 proc[t].device,
                                                 proc[t].blocksize,
                                                 optargs_bitmask, ss, cmd)]]
  /\ UNCHANGED <<optargs_bitmask, call, reply>>

ConcNext ==
  \E t \in Threads :
    \/ CallMkfs(t)
    \/ CallMkfsB(t)
    \/ EnterMkfs(t)
    \/ EnterMkfsB(t)
    \/ BuildArgv(t)
    \/ ProcessBlocksize(t)

SpecConc == Init /\ [][ConcNext]_vars

(***************************************************************************)
(* Reference definitions used to state the properties.  They work on       *)
(* lines and positions of the unmodified output, not on the C buffers.     *)
(***************************************************************************)
Whitespace == {" ", "\t", "\n", "VT", "\f", "\r"}
UuidChars ==
  {"0", "1", "2", "3", "4", "5", "6", "7", "8", "9",
   "a", "b", "c", "d", "e", "f", "A", "B", "C", "D", "E", "F", "-"}

\* index of the first c in s, 0 when there is none
FirstIdx(s, c) ==
  IF \E i \in 1..Len(s) : s[i] = c
  THEN CHOOSE i \in 1..Len(s) : s[i] = c /\ \A j \in 1..(i - 1) : s[j] # c
  ELSE 0

HasPrefix(s, pre) == Len(s) >= Len(pre) /\ SubSeq(s, 1, Len(pre)) = pre

RECURSIVE SplitLines(_)
SplitLines(s) ==
  IF s = <<>> THEN <<>>
  ELSE LET n == FirstIdx(s, "\n") IN
         IF n = 0 THEN <<s>>
         ELSE <<SubSeq(s, 1, n - 1)>> \o SplitLines(SubSeq(s, n + 1, Len(s)))

NoEmptyLine(s) == \A i \in DOMAIN SplitLines(s) : SplitLines(s)[i] # <<>>

RECURSIVE LTrim(_)
LTrim(s) == IF s # <<>> /\ Head(s) \in Whitespace THEN LTrim(Tail(s)) ELSE s

PairOfLine(line) ==
  LET c == FirstIdx(line, ":") IN
    IF c = 0 THEN <<line, <<>>>>
    ELSE LET v == LTrim(SubSeq(line, c + 1, Len(line))) IN
           <<SubSeq(line, 1, c - 1),
             IF v \in {StrNone, StrNotAvailable, StrParenNone} THEN <<>> ELSE v>>

\* the lines after the banner line, if there is one
BodyLines(out) ==
  LET ls == SplitLines(out) IN
    IF ls # <<>> /\ HasPrefix(ls[1], Banner) THEN Tail(ls) ELSE ls

RECURSIVE PairsOf(_)
PairsOf(ls) ==
  IF ls = <<>> THEN <<>> ELSE PairOfLine(Head(ls)) \o PairsOf(Tail(ls))

ExpectedTune(out) == PairsOf(BodyLines(out)) \o <<NULLPTR>>

ExpectedTuneSkippingBlank(out) ==
  PairsOf(SelectSeq(BodyLines(out), LAMBDA l : l # <<>>)) \o <<NULLPTR>>

\* the banner line is not ended by a newline
TruncatedBanner(out) == HasPrefix(out, Banner) /\ FirstIdx(out, "\n") = 0

TuneCall == call.op = "tune2fs_l" /\ call.r = 0

\* C1 (as stated): when the tool succeeds and the output has no empty line,
\* do_tune2fs_l returns the pairs of all lines but a leading "tune2fs " line,
\* in line order, followed by one sentinel.
C1_AsStated ==
  (TuneCall /\ NoEmptyLine(call.out))
    => (reply.status = "ok" /\ reply.ret = ExpectedTune(call.out))

\* C1 (amended): when the tool succeeds, the output has no empty line and a
\* leading "tune2fs " line is ended by a newline, do_tune2fs_l returns the
\* pairs of all lines but that banner line, in line order, followed by one
\* sentinel; when the banner line has no newline the operation fails with
\* the truncated-output error.
C1_Tune2fsPairs ==
  (TuneCall /\ NoEmptyLine(call.out))
    => IF TruncatedBanner(call.out)
       THEN reply.status = "error" /\ reply.msg = ErrTruncated
       ELSE reply.status = "ok" /\ reply.ret = ExpectedTune(call.out)

C1_Witness ==
  /\ TuneCall /\ NoEmptyLine(call.out)
  /\ HasPrefix(call.out, Banner)
  /\ reply.status = "ok"
  /\ FirstIdx(call.out, ":") # 0
  /\ reply.ret = <<<<"k">>, <<>>, NULLPTR>>

\* C2: empty lines produce no pair and do not affect the lines after them:
\* the result is the list of the pairs of the non-empty lines.
C2_BlankLinesSkipped ==
  (TuneCall /\ ~TruncatedBanner(call.out))
    => (reply.status = "ok"
        /\ reply.ret = ExpectedTuneSkippingBlank(call.out))

UuidCall == call.op = "get_e2uuid" /\ call.r = 0

\* index of the first occurrence of the marker, 0 when absent
MarkerAt(out) ==
  LET occ == {i \in 1..Len(out) :
                /\ i + Len(Marker) - 1 <= Len(out)
                /\ SubSeq(out, i, i + Len(Marker) - 1) = Marker}
  IN IF occ = {} THEN 0 ELSE CHOOSE i \in occ : \A j \in occ : i <= j

\* first index >= from whose character is not in cs, Len(out) + 1 if none
FirstNotIn(out, from, cs) ==
  LET cand == {i \in from..Len(out) : out[i] \notin cs} IN
    IF cand = {} THEN Len(out) + 1
    ELSE CHOOSE i \in cand : \A j \in cand : i <= j

\* first non-whitespace position after the marker, and the end of the run
RunStart(out) == FirstNotIn(out, MarkerAt(out) + Len(Marker), Whitespace)
RunEnd(out) == FirstNotIn(out, RunStart(out), UuidChars)
Run(out) == SubSeq(out, RunStart(out), RunEnd(out) - 1)

C4_EmptyRunFails ==
  (/\ UuidCall
   /\ MarkerAt(call.out) # 0
   /\ RunStart(call.out) <= Len(call.out)
   /\ call.out[RunStart(call.out)] \notin UuidChars)
    => reply.status = "error"

\* index of the newline that ends the line holding position from, or
\* Len(out) + 1 when that line is the last one and has no newline
LineEnd(out, from) ==
  LET cand == {i \in from..Len(out) : out[i] = "\n"} IN
    IF cand = {} THEN Len(out) + 1
    ELSE CHOOSE i \in cand : \A j \in cand : i <= j

\* C5: do_get_e2uuid fails whenever only whitespace stands between the
\* marker and the end of the marker's line.
C5_EmptyLineFails ==
  (/\ UuidCall
   /\ MarkerAt(call.out) # 0
   /\ LET from == MarkerAt(call.out) + Len(Marker) IN
        \A i \in from..(LineEnd(call.out, from) - 1) :
          call.out[i] \in Whitespace)
    => reply.status = "error"

MkfsCall == call.op = "mkfs" \/ call.op = "mkfs_b"

IsPowerOfTwo(n) == \E e \in 0..30 : n = 2 ^ e

FatType(fstype) == fstype = "vfat" \/ fstype = "msdos"

\* the quotients q of b by s: q * s <= b < (q + 1) * s
IsQuotient(q, b, s) == q * s <= b /\ b < (q + 1) * s

\* the calls whose block-size option, if any, is accepted
Accepted ==
  \/ call.op = "mkfs"
  \/ /\ call.op = "mkfs_b"
     /\ call.blocksize > 0 /\ IsPowerOfTwo(call.blocksize)
     /\ FatType(call.fstype) =>
          /\ call.ss # -1
          /\ \E q \in 1..128 : IsQuotient(q, call.blocksize, call.ss)

Opt(cond, args) == IF cond THEN args ELSE <<>>

BlocksizeFlag(fstype) ==
  IF FatType(fstype) THEN "-s" ELSE IF fstype = "ntfs" THEN "-c" ELSE "-b"

BlocksizeNumber ==
  IF FatType(call.fstype)
  THEN CHOOSE q \in 1..128 : IsQuotient(q, call.blocksize, call.ss)
  ELSE call.blocksize

ExpectedArgv ==
  <<"mkfs", "-t", call.fstype>>
    \o Opt(call.fstype = "ntfs", <<"-Q">>)
    \o Opt(call.fstype \in {"reiserfs", "jfs"}, <<"-f">>)
    \o Opt(call.fstype \in {"gfs", "gfs2"},
           <<"-p", "lock_nolock", "-j", "1", "-O">>)
    \o Opt(call.op = "mkfs_b",
           <<BlocksizeFlag(call.fstype), ToString(BlocksizeNumber)>>)
    \o <<call.device>>

Count(seq, x) == Cardinality({i \in 1..Len(seq) : seq[i] = x})

\* C6: for every fstype and accepted block-size option, mkfs is run with
\* "mkfs -t fstype", the type flags in their fixed order, the block-size flag
\* iff a block size was supplied, and the device last; each type flag
\* appears exactly once for its fstype and never for another.
C6_ArgumentVector ==
  (MkfsCall /\ Accepted)
    => /\ reply.ncommandv = 1
       /\ reply.argv = ExpectedArgv \o <<NULLPTR>>
       /\ Count(reply.argv, "-Q") = IF call.fstype = "ntfs" THEN 1 ELSE 0
       /\ Count(reply.argv, "-f")
            = IF call.fstype \in {"reiserfs", "jfs"} THEN 1 ELSE 0
       /\ \A a \in {"-p", "lock_nolock", "-j", "-O"} :
            Count(reply.argv, a)
              = IF call.fstype \in {"gfs", "gfs2"} THEN 1 ELSE 0

C6_Witness ==
  /\ call.op = "mkfs_b" /\ call.fstype = "jfs" /\ call.blocksize = 4096
  /\ reply.ncommandv = 1
  /\ reply.argv
       = <<"mkfs", "-t", "jfs", "-f", "-b", "4096", call.device, NULLPTR>>

\* C7: with a block size supplied, a value <= 0 or not a power of two fails
\* with the validation error and nothing is executed; every positive power
\* of two passes the validation; without a block size there is no validation.
C7_BlocksizeValidation ==
  /\ (call.op = "mkfs_b"
        /\ (call.blocksize <= 0 \/ ~IsPowerOfTwo(call.blocksize)))
       => /\ reply.ret = -1 /\ reply.msg = ErrBlocksize
          /\ reply.ncommandv = 0 /\ ~reply.getss
  /\ (call.op = "mkfs_b"
        /\ call.blocksize > 0 /\ IsPowerOfTwo(call.blocksize))
       => reply.msg # ErrBlocksize
  /\ call.op = "mkfs" => reply.msg # ErrBlocksize

C7_Witness ==
  /\ call.op = "mkfs_b" /\ call.blocksize = 3000
  /\ reply.ret = -1 /\ reply.msg = ErrBlocksize /\ reply.ncommandv = 0

\* C8: for vfat/msdos with a valid block size B and sector size S, mkfs gets
\* "-s q" for the integer quotient q of B by S iff 1 <= q <= 128; otherwise
\* the call fails without running mkfs, naming B, S and q; a failed
\* sector-size query fails the call without running mkfs.
C8_SectorsPerCluster ==
  (/\ call.op = "mkfs_b" /\ FatType(call.fstype)
   /\ call.blocksize > 0 /\ IsPowerOfTwo(call.blocksize))
    => IF call.ss = -1 THEN reply.ret = -1 /\ reply.ncommandv = 0
       ELSE
         \E q \in {call.blocksize \div call.ss} :
           /\ IsQuotient(q, call.blocksize, call.ss)
           /\ IF 1 <= q /\ q <= 128
              THEN /\ reply.ncommandv = 1
                   /\ \E k \in 1..(Len(reply.argv) - 1) :
                        reply.argv[k] = "-s"
                          /\ reply.argv[k + 1] = ToString(q)
              ELSE /\ reply.ret = -1 /\ reply.ncommandv = 0
                   /\ reply.msg = ErrCluster
                   /\ reply.info = <<call.fstype, call.blocksize, call.ss, q>>
                   /\ Count(reply.argv, "-s") = 0

C8_Witness ==
  /\ call.op = "mkfs_b" /\ call.fstype = "vfat"
  /\ call.blocksize = 8192 /\ call.ss = 512
  /\ reply.ncommandv = 1
  /\ reply.argv
       = <<"mkfs", "-t", "vfat", "-s", "16", call.device, NULLPTR>>

\* C10: the number of argv slots written, the terminating NULL included,
\* never exceeds MAX_ARGS, and the abort () is not reached.
C10_ArgvFits ==
  MkfsCall => (reply.i <= MAX_ARGS /\ reply.status # "abort")

C10_Witness ==
  /\ call.op = "mkfs_b" /\ call.fstype = "gfs2"
  /\ reply.ncommandv = 1 /\ reply.i = 12

\* the result of thread t's call when no other call interferes
Alone(t) ==
  do_mkfs_opts(proc[t].fstype, proc[t].device, proc[t].blocksize,
               OwnMask(proc[t].op), proc[t].ss, proc[t].cmd)

\* C9: interleaved calls on different devices are independent: each call
\* reads the block-size-present flag that it set itself and builds the
\* argument vector and returns the result that it does when it runs alone.
C9_CallsIndependent ==
  \A t \in Threads :
    proc[t].pc = "done"
      => /\ proc[t].bitmask = OwnMask(proc[t].op)
         /\ proc[t].res = Alone(t)

====
